---- MODULE Spec2Model ----
(***************************************************************************)
(* Model of nginx-sys/build.rs: the cargo build script that imports the    *)
(* GPG keys, downloads, verifies and extracts zlib, pcre2, openssl and     *)
(* nginx, and decides whether nginx has to be configured and built again.  *)
(*                                                                         *)
(* One behaviour is a sequence of runs of main() on one cache root.  The   *)
(* file system persists between the runs; the environment variables are    *)
(* chosen when a run starts.  The external collaborators (key server,     *)
(* download servers, gpg, configure, make) answer nondeterministically.   *)
(* Failures of local file operations (create, write, remove) are outside   *)
(* the model.                                                              *)
(*                                                                         *)
(* Texts the script splits (URLs, file names, versions) are sequences of   *)
(* tokens: a token is one of the delimiters "/", ".", "-" or a piece of    *)
(* text without delimiter.  Str gives the text of a token sequence.        *)
(***************************************************************************)
EXTENDS Integers, Sequences, FiniteSets, TLC

\* Number of runs of the build script in one behaviour.
MaxRuns == 3
\* Number of failures of the external collaborators in one behaviour: answers
\* of the key and download servers that are not the published key or file,
\* and failing runs of configure and make.
MaxFaults == 2
\* Number of changes of an environment variable in one behaviour.
MaxChanges == 2
\* Number of lines of a Makefile given to parse_includes_from_makefile.
MaxLines == 3

\* env::var(..) = Err(NotPresent)
Unset == "<unset>"

-----------------------------------------------------------------------------
(* Text helpers *)

RECURSIVE Str(_)
Str(toks) == IF toks = <<>> THEN "" ELSE Head(toks) \o Str(Tail(toks))

RECURSIVE Join(_, _)
\* slice.join(sep)
Join(strs, sep) ==
    IF strs = <<>> THEN ""
    ELSE IF Len(strs) = 1 THEN strs[1]
    ELSE strs[1] \o sep \o Join(Tail(strs), sep)

\* Positions of the delimiter d in toks.
Positions(toks, d) == {k \in 1..Len(toks) : toks[k] = d}

Max(S) == CHOOSE x \in S : \A y \in S : y <= x
Min(S) == CHOOSE x \in S : \A y \in S : x <= y

\* str.split(d).last()
SplitLast(toks, d) ==
    IF Positions(toks, d) = {} THEN toks
    ELSE SubSeq(toks, Max(Positions(toks, d)) + 1, Len(toks))

RECURSIVE RSplitNLast(_, _, _)
\* str.rsplitn(n, d).last(): what is left after at most n-1 pieces were
\* split off from the right.
RSplitNLast(toks, n, d) ==
    IF n <= 1 \/ Positions(toks, d) = {} THEN toks
    ELSE RSplitNLast(SubSeq(toks, 1, Max(Positions(toks, d)) - 1), n - 1, d)

\* str.split_once(d) is Some(..) when HasDelim holds, and SplitOnceFirst is
\* then the part before the first delimiter.
HasDelim(toks, d) == Positions(toks, d) # {}
SplitOnceFirst(toks, d) == SubSeq(toks, 1, Min(Positions(toks, d)) - 1)

\* Path::join
PathJoin(dir, name) == dir \o "/" \o name

-----------------------------------------------------------------------------
(* Constants of build.rs *)

ZLIB_DEFAULT_VERSION == <<"1", ".", "3">>
PCRE2_DEFAULT_VERSION == <<"10", ".", "42">>
OPENSSL_DEFAULT_VERSION == <<"3", ".", "0", ".", "7">>
NGX_DEFAULT_VERSION == <<"1", ".", "24", ".", "0">>

ZLIB_DOWNLOAD_URL_PREFIX == <<"https:", "/", "/", "www", ".", "zlib", ".", "net">>
PCRE2_DOWNLOAD_URL_PREFIX ==
    <<"https:", "/", "/", "github", ".", "com", "/", "PCRE2Project", "/",
      "pcre2", "/", "releases", "/", "download">>
OPENSSL_DOWNLOAD_URL_PREFIX ==
    <<"https:", "/", "/", "www", ".", "openssl", ".", "org", "/", "source", "/">>
NGX_DOWNLOAD_URL_PREFIX == <<"https:", "/", "/", "nginx", ".", "org", "/", "download">>

ZLIB_GPG_SERVER_AND_KEY_ID ==
    [server |-> "keyserver.ubuntu.com", key_ids |-> <<"783FCD8E58BCAFBA">>]
PCRE2_GPG_SERVER_AND_KEY_ID ==
    [server |-> "keyserver.ubuntu.com", key_ids |-> <<"9766E084FB0F43D8">>]
\* key_ids is the text of line 29-34 as split_whitespace() yields it.
OPENSSL_GPG_SERVER_AND_KEY_IDS ==
    [server |-> "keys.openpgp.org",
     key_ids |-> <<"A21FAB74B0088AA361152586B8EF1A6BA9DA2D5C",
                   "8657ABB260F056B1E5190839D9C4D26D0E604491",
                   "B7C1C14360F353A36862E4D5231C84CDDCC69C45",
                   "95A9908DDFA16830BE9FB9003D30A3A9FF1360DC",
                   "7953AC1FBC3DC8B3B292393ED5E9E43F7DF9EE8C">>]
NGX_GPG_SERVER_AND_KEY_ID ==
    [server |-> "keyserver.ubuntu.com", key_ids |-> <<"A0EA981B66B0D967">>]
ALL_SERVERS_AND_PUBLIC_KEY_IDS ==
    <<ZLIB_GPG_SERVER_AND_KEY_ID, PCRE2_GPG_SERVER_AND_KEY_ID,
      OPENSSL_GPG_SERVER_AND_KEY_IDS, NGX_GPG_SERVER_AND_KEY_ID>>

NGX_BASE_MODULES ==
    <<"--with-compat",
      "--with-http_addition_module",
      "--with-http_auth_request_module",
      "--with-http_flv_module",
      "--with-http_gunzip_module",
      "--with-http_gzip_static_module",
      "--with-http_random_index_module",
      "--with-http_realip_module",
      "--with-http_secure_link_module",
      "--with-http_slice_module",
      "--with-http_slice_module",
      "--with-http_ssl_module",
      "--with-http_stub_status_module",
      "--with-http_sub_module",
      "--with-http_v2_module",
      "--with-stream_realip_module",
      "--with-stream_ssl_module",
      "--with-stream_ssl_preread_module",
      "--with-stream",
      "--with-threads">>
NGX_LINUX_ADDITIONAL_OPTS ==
    <<"--with-file-aio",
      "--with-cc-opt=-g -fstack-protector-strong -Wformat -Werror=format-security -Wp,-D_FORTIFY_SOURCE=2 -fPIC",
      "--with-ld-opt=-Wl,-Bsymbolic-functions -Wl,-z,relro -Wl,-z,now -Wl,--as-needed -pie">>

ENV_VARS_TRIGGERING_RECOMPILE ==
    <<"DEBUG", "OUT_DIR", "ZLIB_VERSION", "PCRE2_VERSION", "OPENSSL_VERSION",
      "NGX_VERSION", "CARGO_CFG_TARGET_OS", "CARGO_MANIFEST_DIR",
      "CARGO_TARGET_TMPDIR">>

\* env::consts::OS and env::consts::ARCH of the host the script is built for.
HostOS == "linux"
HostArch == "x86_64"
\* CARGO_MANIFEST_DIR is <project>/nginx-sys; the cache root is its parent's
\* .cache directory.  All runs of a behaviour use this one cache root.
ProjectDir == <<"/", "p">>

-----------------------------------------------------------------------------
(* The environment of one run *)

\* A version variable that is not set.
UnsetV == <<Unset>>

EnvVersion(v, default) == IF v = UnsetV THEN default ELSE v

TarGz == <<".", "tar", ".", "gz">>

zlib_archive_url(e) ==
    ZLIB_DOWNLOAD_URL_PREFIX \o <<"/", "zlib", "-">>
        \o EnvVersion(e.ZLIB_VERSION, ZLIB_DEFAULT_VERSION) \o TarGz

pcre2_archive_url(e) ==
    LET version == EnvVersion(e.PCRE2_VERSION, PCRE2_DEFAULT_VERSION)
    IN  PCRE2_DOWNLOAD_URL_PREFIX \o <<"/", "pcre2", "-">> \o version
            \o <<"/", "pcre2", "-">> \o version \o TarGz

openssl_archive_url(e) ==
    OPENSSL_DOWNLOAD_URL_PREFIX \o <<"/", "openssl", "-">>
        \o EnvVersion(e.OPENSSL_VERSION, OPENSSL_DEFAULT_VERSION) \o TarGz

nginx_archive_url(e) ==
    NGX_DOWNLOAD_URL_PREFIX \o <<"/", "nginx", "-">>
        \o EnvVersion(e.NGX_VERSION, NGX_DEFAULT_VERSION) \o TarGz

\* The (archive URL, signature URL) pairs, in the order they are processed.
\* The archives with nginx first
all_archives_nginx_first(e) ==
    << <<nginx_archive_url(e), nginx_archive_url(e) \o <<".", "asc">> >>,
       <<zlib_archive_url(e), zlib_archive_url(e) \o <<".", "asc">> >>,
       <<pcre2_archive_url(e), pcre2_archive_url(e) \o <<".", "sig">> >>,
       <<openssl_archive_url(e), openssl_archive_url(e) \o <<".", "asc">> >> >>

all_archives(e) ==
    << <<zlib_archive_url(e), zlib_archive_url(e) \o <<".", "asc">> >>,
       <<pcre2_archive_url(e), pcre2_archive_url(e) \o <<".", "sig">> >>,
       <<openssl_archive_url(e), openssl_archive_url(e) \o <<".", "asc">> >>,
       <<nginx_archive_url(e), nginx_archive_url(e) \o <<".", "asc">> >> >>

NumArchives == Len(all_archives([ZLIB_VERSION |-> UnsetV, PCRE2_VERSION |-> UnsetV,
                                 OPENSSL_VERSION |-> UnsetV, NGX_VERSION |-> UnsetV]))

\* make_cache_dir: the parent of the manifest directory, joined with .cache
make_cache_dir == ProjectDir \o <<"/", ".", "cache">>

Platform == HostOS \o "-" \o HostArch

source_output_dir(e, cache_dir) ==
    IF e.CARGO_TARGET_TMPDIR # Unset THEN e.CARGO_TARGET_TMPDIR
    ELSE PathJoin(PathJoin(cache_dir, "src"), Platform)

nginx_install_dir(e, base_dir) ==
    PathJoin(PathJoin(PathJoin(base_dir, "nginx"),
                      Str(EnvVersion(e.NGX_VERSION, NGX_DEFAULT_VERSION))),
             Platform)

\* which("gpg").ok(): whether gpg is on the PATH of the run.
gpg_path(e) == e.gpg

-----------------------------------------------------------------------------
(* Build Planner *)

format_source_path(flag, path) == flag \o "=" \o path

\* The debug toggle and the effective target OS, as the script reads them.
DebugOn(e) == e.NGX_DEBUG = "true"
TargetIsLinux(e) ==
    IF e.CARGO_CFG_TARGET_OS = Unset THEN HostOS = "linux"
    ELSE e.CARGO_CFG_TARGET_OS = "linux"

\* nginx_configure_flags forgetting the debug toggle
nginx_configure_flags_no_debug(e, install_dir, zlib_src_dir, openssl_src_dir, pcre2_src_dir) ==
    << format_source_path("--prefix", install_dir) >>
    \o (IF TargetIsLinux(e) THEN NGX_LINUX_ADDITIONAL_OPTS ELSE <<>>)
    \o << format_source_path("--with-zlib", zlib_src_dir),
          format_source_path("--with-pcre", pcre2_src_dir),
          format_source_path("--with-openssl", openssl_src_dir) >>
    \o NGX_BASE_MODULES

\* nginx_configure_flags with the Linux flags before the debug flag
nginx_configure_flags_linux_first(e, install_dir, zlib_src_dir, openssl_src_dir, pcre2_src_dir) ==
    << format_source_path("--prefix", install_dir) >>
    \o (IF TargetIsLinux(e) THEN NGX_LINUX_ADDITIONAL_OPTS ELSE <<>>)
    \o (IF DebugOn(e) THEN <<"--with-debug">> ELSE <<>>)
    \o << format_source_path("--with-zlib", zlib_src_dir),
          format_source_path("--with-pcre", pcre2_src_dir),
          format_source_path("--with-openssl", openssl_src_dir) >>
    \o NGX_BASE_MODULES

nginx_configure_flags(e, install_dir, zlib_src_dir, openssl_src_dir, pcre2_src_dir) ==
    LET modules == << format_source_path("--with-zlib", zlib_src_dir),
                      format_source_path("--with-pcre", pcre2_src_dir),
                      format_source_path("--with-openssl", openssl_src_dir) >>
                   \o NGX_BASE_MODULES
    IN  << format_source_path("--prefix", install_dir) >>
        \o (IF DebugOn(e) THEN <<"--with-debug">> ELSE <<>>)
        \o (IF TargetIsLinux(e) THEN NGX_LINUX_ADDITIONAL_OPTS ELSE <<>>)
        \o modules

build_info(flags) == Join(flags, " ")

-----------------------------------------------------------------------------
(* Extractor: the names extract_archive derives from an archive path *)

\* archive_path.file_name(): the last component of the path.
file_name(url) == SplitLast(url, "/")

archive_stem(name) == RSplitNLast(name, 3, ".")

dependency_name(stem) == Str(SplitOnceFirst(stem, "-"))

archive_output_dir(base_dir, name) == PathJoin(base_dir, Str(archive_stem(name)))

-----------------------------------------------------------------------------
(* State *)

VARIABLES
    env,        \* environment of the current (or last) run
    runs,       \* number of runs started
    faults,     \* number of failures of the external collaborators
    changes,    \* number of changes of an environment variable
    pc,         \* position of main(): "idle" between runs
    dep,        \* index of the archive extract_all_archives is working on
    archive,    \* archive path get_archive returned for that archive
    sources,    \* extract_all_archives: the (name, directory) pairs so far
    decision,   \* compile_nginx: "none", "skip" or "rebuild"
    result,     \* "none", "running", "ok" or "failed"
    stage,      \* where the failed run stopped
    log,        \* what the current run did, in order
    start,      \* the file system when the current run started
    prev,       \* environment and outcome of the run before
    keyfiles,   \* <cache>/.gnupg/*.key: the key id record files
    keyring,    \* key id -> number of successful --recv-keys into .gnupg
    cache,      \* downloaded file -> content
    dirs,       \* extracted source directory -> what it was unpacked from
    makefiles,  \* nginx source directories that hold a Makefile
    objs,       \* nginx source directory -> flags objs/Makefile was made with
    buildinfo,  \* nginx source directory -> text of last-build-info
    installed,  \* install directories that hold sbin/nginx
    makefile_contents,  \* parse_includes_from_makefile: the lines it reads
    includes    \* parse_includes_from_makefile: the paths it returned

fsvars == <<keyfiles, keyring, cache, dirs, makefiles, objs, buildinfo, installed>>
runvars == <<env, runs, faults, changes, pc, dep, archive, sources, decision, result, stage, log,
             start, prev>>
parsevars == <<makefile_contents, includes>>
vars == <<env, runs, faults, changes, pc, dep, archive, sources, decision, result, stage, log,
          start, prev, keyfiles, keyring, cache, dirs, makefiles, objs,
          buildinfo, installed, makefile_contents, includes>>

\* Files and directories: a function from the paths that exist.
Put(fs, path, val) == [q \in DOMAIN fs \cup {path} |-> IF q = path THEN val ELSE fs[q]]
\* A removal that leaves the file
RemoveKeeping(fs, path) == fs
Remove(fs, path) == [q \in DOMAIN fs \ {path} |-> fs[q]]
Exists(fs, path) == path \in DOMAIN fs
NoFiles == [q \in {} |-> ""]

Event(op, arg, ok) == [op |-> op, arg |-> arg, ok |-> ok]
Count(l, op) == Cardinality({k \in 1..Len(l) : l[k].op = op})

\* All key ids of ALL_SERVERS_AND_PUBLIC_KEY_IDS.
KeyIds ==
    UNION {{r.key_ids[k] : k \in 1..Len(r.key_ids)} :
           r \in {ALL_SERVERS_AND_PUBLIC_KEY_IDS[n] :
                  n \in 1..Len(ALL_SERVERS_AND_PUBLIC_KEY_IDS)}}

DefaultEnv ==
    [gpg |-> TRUE, NGX_DEBUG |-> Unset, CARGO_CFG_TARGET_OS |-> Unset,
     ZLIB_VERSION |-> UnsetV, PCRE2_VERSION |-> UnsetV, OPENSSL_VERSION |-> UnsetV,
     NGX_VERSION |-> UnsetV, CARGO_TARGET_TMPDIR |-> Unset]

Snapshot ==
    [keyfiles |-> keyfiles, keyring |-> keyring, cache |-> cache, dirs |-> dirs,
     makefiles |-> makefiles, objs |-> objs, buildinfo |-> buildinfo,
     installed |-> installed]

\* The value of includes before parse_includes_from_makefile returned.
NotParsed == << <<"not parsed">> >>

\* A fresh checkout: no cache directory, nothing built, no run yet.
FreshCheckout ==
    /\ env = DefaultEnv
    /\ runs = 0
    /\ faults = 0
    /\ changes = 0
    /\ pc = "idle"
    /\ dep = 0
    /\ archive = <<>>
    /\ sources = <<>>
    /\ decision = "none"
    /\ result = "none"
    /\ stage = "none"
    /\ log = <<>>
    /\ keyfiles = {}
    /\ keyring = [id \in KeyIds |-> 0]
    /\ cache = NoFiles
    /\ dirs = NoFiles
    /\ makefiles = {}
    /\ objs = NoFiles
    /\ buildinfo = NoFiles
    /\ installed = {}
    /\ start = Snapshot
    /\ prev = [env |-> DefaultEnv, result |-> "none", stage |-> "none",
               decision |-> "none", dep |-> 0]

Init ==
    /\ FreshCheckout
    /\ makefile_contents = <<>>
    /\ includes = NotParsed

\* cargo runs the build script with environment e.
StartRun(e) ==
    /\ pc = "idle"
    /\ UNCHANGED parsevars
    /\ runs < MaxRuns
    /\ env' = e
    /\ changes' = changes + Cardinality({x \in DOMAIN e : e[x] # env[x]})
    /\ changes' <= MaxChanges
    /\ runs' = runs + 1
    /\ prev' = [env |-> env, result |-> result, stage |-> stage,
                decision |-> decision, dep |-> dep]
    /\ start' = Snapshot
    /\ pc' = "keys"
    /\ dep' = 0
    /\ archive' = <<>>
    /\ sources' = <<>>
    /\ decision' = "none"
    /\ result' = "running"
    /\ stage' = "none"
    /\ log' = <<>>
    /\ UNCHANGED faults
    /\ UNCHANGED fsvars

\* An Err that main() returns, or a panic: the run is over.
Fail(st) ==
    /\ pc' = "idle"
    /\ result' = "failed"
    /\ stage' = st

-----------------------------------------------------------------------------
(* Key Ring: import_gpg_keys *)

\* format!("{key_ids}.key"): the record file is named after the whole
\* key_ids text of the pair.
key_id_record_file(r) == Join(r.key_ids, " ") \o ".key"

\* The pairs whose record file does not exist.
keys_to_import(kf) ==
    SelectSeq(ALL_SERVERS_AND_PUBLIC_KEY_IDS,
              LAMBDA r : key_id_record_file(r) \notin kf)

RECURSIVE Retrievals(_)
\* The --recv-keys invocations of the two nested loops, in order.
Retrievals(pairs) ==
    IF pairs = <<>> THEN <<>>
    ELSE [k \in 1..Len(Head(pairs).key_ids) |->
             [server |-> Head(pairs).server, key_id |-> Head(pairs).key_ids[k],
              record |-> key_id_record_file(Head(pairs))]]
         \o Retrievals(Tail(pairs))

\* The record file written after retrieval number k of todo succeeded.
RecordWritten(todo, k) == todo[k].record

\* What a gpg --recv-keys that fails exits with and prints.
GpgFailure == "2"
GpgDiagnostics == "gpg: keyserver receive failed"

\* duct: run() gives the Output when the command exits with status 0; for
\* another status it returns an Err naming the status (the expression is not
\* unchecked()).
duct_run(status, captured) ==
    IF status = "0"
    THEN [ok |-> TRUE, status |-> status, stdout |-> captured]
    ELSE [ok |-> FALSE, error |-> "command exited with a non-zero status"]

\* line 241-261: the text of the Err import_gpg_keys returns when the
\* retrieval t exits with status printing diagnostics ("": no Err).  The
\* expression has no stdout_capture(): output.stdout is empty.
recv_keys_error(t, status, diagnostics) ==
    LET output == duct_run(status, "")
    IN  IF ~output.ok THEN output.error
        ELSE IF output.status # "0"
        THEN "Failed to import GPG key " \o t.key_id \o " from server "
                \o t.server \o ": " \o output.stdout
        ELSE ""

\* import_gpg_keys where the first n retrievals succeed; failed says whether
\* retrieval n+1 fails (n = Len(todo) and failed = FALSE: all succeed).
ImportKeys(n, failed) ==
    LET todo == Retrievals(keys_to_import(keyfiles))
    IN  /\ n \in 0..Len(todo)
        /\ failed => n < Len(todo)
        /\ ~failed => n = Len(todo)
        /\ keyring' = [id \in KeyIds |->
              keyring[id] + Cardinality({k \in 1..n : todo[k].key_id = id})]
        /\ keyfiles' = keyfiles \cup {RecordWritten(todo, k) : k \in 1..n}
        /\ log' = log \o [k \in 1..n |-> Event("recv-keys", todo[k].key_id, TRUE)]
                      \o (IF failed
                          THEN <<Event("recv-keys", todo[n + 1].key_id, FALSE),
                                 Event("Err", recv_keys_error(todo[n + 1], GpgFailure,
                                                              GpgDiagnostics),
                                       FALSE)>>
                          ELSE <<>>)
        /\ IF failed
           THEN Fail("keys") /\ UNCHANGED dep
           ELSE pc' = "fetch" /\ dep' = 1 /\ UNCHANGED <<result, stage>>

\* main line 95-97 with gpg on the PATH and every key retrieval succeeding.
ImportKeysOk ==
    /\ pc = "keys"
    /\ UNCHANGED parsevars
    /\ gpg_path(env)
    /\ \E n \in 0..Cardinality(KeyIds) : ImportKeys(n, FALSE)
    /\ UNCHANGED <<env, runs, faults, changes, archive, sources, decision, start, prev,
                   cache, dirs, makefiles, objs, buildinfo, installed>>

\* ... with one key retrieval failing.
ImportKeysFail ==
    /\ pc = "keys"
    /\ UNCHANGED parsevars
    /\ gpg_path(env)
    /\ \E n \in 0..Cardinality(KeyIds) : ImportKeys(n, TRUE)
    /\ faults < MaxFaults
    /\ faults' = faults + 1
    /\ UNCHANGED <<env, runs, changes, archive, sources, decision, start, prev,
                   cache, dirs, makefiles, objs, buildinfo, installed>>

\* ... without gpg: import_gpg_keys does nothing and returns Ok.
ImportKeysSkipped ==
    /\ pc = "keys"
    /\ UNCHANGED parsevars
    /\ ~gpg_path(env)
    /\ pc' = "fetch"
    /\ dep' = 1
    /\ UNCHANGED <<env, runs, faults, changes, archive, sources, decision, result, stage,
                   log, start, prev>>
    /\ UNCHANGED fsvars

-----------------------------------------------------------------------------
(* Fetcher and Verifier: download, verify_*, get_archive *)

\* What a server can answer to a GET: a body, or "neterr" (the request
\* fails, no file is created), or "cut" (the body breaks off after the file
\* was created and partly written).
SigBodies == {"empty", "malformed", "valid", "foreign"}
ArcBodies == {"empty", "tampered", "genuine"}
NetErrors == {"neterr", "cut"}

\* gpg --list-packets succeeds on a well-formed signature file: "valid" is the
\* publisher's signature of the genuine archive, "foreign" a well-formed
\* signature of something else.
ListPacketsOk(sig) == sig \in {"valid", "foreign"}
\* gpg --verify succeeds
GpgVerifyOk(sig, arc) == sig = "valid" /\ arc = "genuine"

\* A download that never uses the cached file
proceed_with_download_always(c, file_path) == TRUE

\* A download that takes an empty file for a fetched one
proceed_with_download_if_missing(c, file_path) == ~Exists(c, file_path)

proceed_with_download(c, file_path) ==
    ~Exists(c, file_path) \/ c[file_path] = "empty"

\* download of the file at path file_path, the server answering resp.
download(c, file_path, resp) ==
    IF ~proceed_with_download(c, file_path)
    THEN [cache |-> c, ok |-> TRUE, events |-> <<>>]
    ELSE IF resp = "neterr"
    THEN [cache |-> c, ok |-> FALSE, events |-> <<Event("GET", file_path, FALSE)>>]
    ELSE IF resp = "cut"
    THEN [cache |-> Put(c, file_path, "truncated"), ok |-> FALSE,
          events |-> <<Event("GET", file_path, FALSE)>>]
    ELSE [cache |-> Put(c, file_path, resp), ok |-> TRUE,
          events |-> <<Event("GET", file_path, TRUE)>>]

\* verify_signature_file failing when gpg is missing
verify_signature_file_requiring_gpg(e, c, signature_path) ==
    [ok |-> gpg_path(e) /\ ListPacketsOk(c[signature_path]),
     events |-> <<Event("list-packets", signature_path,
                        gpg_path(e) /\ ListPacketsOk(c[signature_path]))>>]

verify_signature_file(e, c, signature_path) ==
    IF gpg_path(e)
    THEN [ok |-> ListPacketsOk(c[signature_path]),
          events |-> <<Event("list-packets", signature_path,
                             ListPacketsOk(c[signature_path]))>>]
    ELSE [ok |-> TRUE,
          events |-> <<Event("println",
                "GPG not found, skipping signature file verification", TRUE)>>]

\* verify_archive_signature accepting every archive
verify_archive_signature_accepting(e, c, archive_path, signature_path) ==
    [ok |-> TRUE,
     events |-> <<Event("verify", archive_path, TRUE)>>]

verify_archive_signature(e, c, archive_path, signature_path) ==
    IF gpg_path(e)
    THEN [ok |-> GpgVerifyOk(c[signature_path], c[archive_path]),
          events |-> <<Event("verify", archive_path,
                             GpgVerifyOk(c[signature_path], c[archive_path]))>>]
    ELSE [ok |-> TRUE,
          events |-> <<Event("println",
                "GPG not found, skipping signature verification", TRUE)>>]

\* get_archive removing the signature too
RemovedBoth(archive_path, signature_path) == {archive_path, signature_path}

\* get_archive removing nothing
RemovedNone(archive_path, signature_path) == {}

\* What get_archive removes when verify_archive_signature fails.
RemovedOnVerifyFailure(archive_path, signature_path) == {archive_path}

RECURSIVE RemoveAll(_, _)
RemoveAll(c, paths) ==
    IF paths = {} THEN c
    ELSE LET q == CHOOSE x \in paths : TRUE
         IN  RemoveAll(Remove(c, q), paths \ {q})

\* get_archive with the servers answering sresp for the signature and aresp
\* for the archive.
get_archive(e, c, cache_dir, archive_url, signature_url, sresp, aresp) ==
    LET signature_path == Str(cache_dir \o <<"/">> \o file_name(signature_url))
        archive_path == Str(cache_dir \o <<"/">> \o file_name(archive_url))
        d1 == download(c, signature_path, sresp)
        v1 == verify_signature_file(e, d1.cache, signature_path)
        d2 == download(d1.cache, archive_path, aresp)
        v2 == verify_archive_signature(e, d2.cache, archive_path, signature_path)
    IN  IF ~d1.ok
        THEN [ok |-> FALSE, stage |-> "download", cache |-> d1.cache,
              events |-> d1.events]
        ELSE IF ~v1.ok
        THEN [ok |-> FALSE, stage |-> "signature",
              cache |-> Remove(d1.cache, signature_path),
              events |-> d1.events \o v1.events
                         \o <<Event("remove", signature_path, TRUE)>>]
        ELSE IF ~d2.ok
        THEN [ok |-> FALSE, stage |-> "download", cache |-> d2.cache,
              events |-> d1.events \o v1.events \o d2.events]
        ELSE IF ~v2.ok
        THEN [ok |-> FALSE, stage |-> "verify",
              cache |-> RemoveAll(d2.cache,
                            RemovedOnVerifyFailure(archive_path, signature_path)),
              events |-> d1.events \o v1.events \o d2.events \o v2.events
                         \o <<Event("remove", archive_path, TRUE)>>]
        ELSE [ok |-> TRUE, stage |-> "none", cache |-> d2.cache,
              events |-> d1.events \o v1.events \o d2.events \o v2.events]

\* extract_all_archives line 425, the servers answering from the given sets.
\* A server that is not asked gives no answer: the answer is then fixed to
\* the published file, which is not used.
GetArchive(SigResp, ArcResp) ==
    /\ pc = "fetch"
    /\ UNCHANGED parsevars
    /\ LET urls == all_archives(env)[dep]
           signature_path == Str(make_cache_dir \o <<"/">> \o file_name(urls[2]))
           archive_path == Str(make_cache_dir \o <<"/">> \o file_name(urls[1]))
       IN  \E sresp \in IF proceed_with_download(cache, signature_path)
                        THEN SigResp ELSE {"valid"} :
             LET sig_ok == download(cache, signature_path, sresp).ok
                           /\ verify_signature_file(env,
                                  download(cache, signature_path, sresp).cache,
                                  signature_path).ok
             IN  \E aresp \in IF sig_ok /\ proceed_with_download(cache, archive_path)
                              THEN ArcResp ELSE {"genuine"} :
                   LET r == get_archive(env, cache, make_cache_dir, urls[1],
                                        urls[2], sresp, aresp)
                       bad == (IF sresp # "valid" THEN 1 ELSE 0)
                              + (IF aresp # "genuine" THEN 1 ELSE 0)
                   IN  /\ faults + bad <= MaxFaults
                       /\ faults' = faults + bad
                       /\ cache' = r.cache
                       /\ log' = log \o r.events
                       /\ IF r.ok
                          THEN /\ pc' = "extract"
                               /\ archive' = make_cache_dir \o <<"/">>
                                                \o file_name(urls[1])
                               /\ UNCHANGED <<result, stage>>
                          ELSE Fail(r.stage) /\ UNCHANGED archive
    /\ UNCHANGED <<env, runs, changes, dep, sources, decision, start, prev,
                   keyfiles, keyring, dirs, makefiles, objs, buildinfo, installed>>

\* The servers answer with the published files.
GetArchiveGenuine == GetArchive({"valid"}, {"genuine"})
\* The servers answer anything.
GetArchiveAny == GetArchive(SigBodies \cup NetErrors, ArcBodies \cup NetErrors)

-----------------------------------------------------------------------------
(* Extractor: extract_archive *)

\* A directory made by create_dir_all (not a source tree).
MadeDir == [from |-> "mkdir", checked |-> FALSE, pair |-> <<"", "">>, complete |-> FALSE]

\* An extraction that never finds the directory
already_extracted_never(d, out) == FALSE

\* line 396: whether the archive counts as extracted already
already_extracted(d, out) == Exists(d, out)

\* How the entries of an archive come out of line 397-404: "all" are read and
\* unpacked; or one cannot be read from the stream ("unreadable": e.ok() is
\* None); or one is read and entry.unpack returns Err ("failed").  The
\* published archive unpacks; an archive without bytes has no entry.
EntryOutcomes(content) ==
    IF content \in {"genuine", "empty"} THEN {"all"}
    ELSE {"all", "unreadable", "failed"}

\* An extraction that goes on after an entry failed to unpack
unpack_unwrap_never(outcome) == FALSE

\* line 403: unwrap() panics when entry.unpack returned Err.
unpack_unwrap_panics(outcome) == outcome = "failed"

\* extract_archive.  A directory records what it was unpacked from, whether
\* that archive passed gpg --verify in the run (checked), the pair the
\* extracting call computed, and whether every entry of the archive is in it.
extract_archive(d, c, archive_path, base_dir, checked, outcome) ==
    LET d1 == IF Exists(d, base_dir) THEN d ELSE Put(d, base_dir, MadeDir)
        name == file_name(archive_path)
        stem == archive_stem(name)
        out == archive_output_dir(base_dir, name)
        content == c[Str(archive_path)]
        pair == <<dependency_name(stem), out>>
    IN  IF ~HasDelim(stem, "-")
        THEN [ok |-> FALSE, dirs |-> d1, events |-> <<>>, pair |-> <<"", "">>]
        ELSE IF ~already_extracted(d1, out)
        THEN [ok |-> ~unpack_unwrap_panics(outcome),
              \* an archive without bytes has no entry: nothing is unpacked
              dirs |-> IF content = "empty" THEN d1
                       ELSE Put(d1, out, [from |-> content, checked |-> checked,
                                          pair |-> pair,
                                          complete |-> outcome = "all"]),
              events |-> <<Event("unpack", out, content # "empty")>>
                         \o (IF outcome = "unreadable"
                             THEN <<Event("entry skipped", out, TRUE)>>
                             ELSE IF outcome = "failed"
                             THEN <<Event("entry.unpack", out, FALSE)>>
                             ELSE <<>>),
              pair |-> pair]
        ELSE [ok |-> TRUE, dirs |-> d1,
              events |-> <<Event("println", "already extracted " \o out, TRUE)>>,
              pair |-> pair]

\* extract_all_archives line 426-428 and the loop's next iteration.
ExtractArchive ==
    /\ pc = "extract"
    /\ UNCHANGED parsevars
    /\ \E outcome \in IF already_extracted(dirs,
                            archive_output_dir(
                                source_output_dir(env, Str(make_cache_dir)),
                                file_name(archive)))
                      THEN {"all"} ELSE EntryOutcomes(cache[Str(archive)]) :
         LET r == extract_archive(dirs, cache, archive,
                                  source_output_dir(env, Str(make_cache_dir)),
                                  gpg_path(env), outcome)
         IN  /\ dirs' = r.dirs
             /\ log' = log \o r.events
             /\ IF r.ok
                THEN /\ sources' = Append(sources, r.pair)
                     /\ IF dep < NumArchives
                        THEN pc' = "fetch" /\ dep' = dep + 1
                        ELSE pc' = "plan" /\ UNCHANGED dep
                     /\ UNCHANGED <<result, stage>>
                ELSE Fail("extract") /\ UNCHANGED <<sources, dep>>
    /\ UNCHANGED <<env, runs, faults, changes, archive, decision, start, prev, keyfiles, keyring,
                   cache, makefiles, objs, buildinfo, installed>>

-----------------------------------------------------------------------------
(* Build Planner and Process Orchestrator: compile_nginx *)

\* find_dependency_path: the directory of the first pair named name.
find_dependency_path(srcs, name) ==
    srcs[Min({k \in 1..Len(srcs) : srcs[k][1] = name})][2]

InstallDir == nginx_install_dir(env, Str(make_cache_dir))
NginxSrcDir == find_dependency_path(sources, "nginx")
CurrentFlags ==
    nginx_configure_flags(env, InstallDir,
                          find_dependency_path(sources, "zlib"),
                          find_dependency_path(sources, "openssl"),
                          find_dependency_path(sources, "pcre2"))

\* line 458-462: a last-build-info that is missing counts as changed.
build_info_no_change(bi, build_info_path, current_build_info) ==
    IF Exists(bi, build_info_path)
    THEN bi[build_info_path] = current_build_info
    ELSE FALSE

\* The decision without the comparison of the fingerprints
needs_rebuild_ignoring_build_info(nginx_binary_exists, autoconf_makefile_exists, no_change) ==
    ~nginx_binary_exists \/ ~autoconf_makefile_exists

\* line 468
needs_rebuild(nginx_binary_exists, autoconf_makefile_exists, no_change) ==
    ~nginx_binary_exists \/ ~autoconf_makefile_exists \/ ~no_change

\* The three inputs of the decision, in the state compile_nginx reads them.
BinaryExists == InstallDir \in installed
MakefileExists == NginxSrcDir \in makefiles
NoChange == build_info_no_change(buildinfo, NginxSrcDir, build_info(CurrentFlags))

\* compile_nginx line 446-469, up to the configure script being looked up
\* (configure line 536-542 panics when the script is missing).
Plan ==
    /\ pc = "plan"
    /\ UNCHANGED parsevars
    /\ IF needs_rebuild(BinaryExists, MakefileExists, NoChange)
       THEN /\ decision' = "rebuild"
            /\ IF Exists(dirs, NginxSrcDir)
               THEN pc' = "configure" /\ UNCHANGED <<result, stage>>
               ELSE Fail("no-configure-script")
       ELSE /\ decision' = "skip"
            /\ pc' = "bind"
            /\ UNCHANGED <<result, stage>>
    /\ UNCHANGED <<env, runs, faults, changes, dep, archive, sources, log, start, prev>>
    /\ UNCHANGED fsvars

\* configure exits with status 0: the Makefiles of the source tree are
\* written for the given flags.
ConfigureOk ==
    /\ pc = "configure"
    /\ UNCHANGED parsevars
    /\ makefiles' = makefiles \cup {NginxSrcDir}
    /\ objs' = Put(objs, NginxSrcDir, build_info(CurrentFlags))
    /\ log' = log \o <<Event("configure", build_info(CurrentFlags), TRUE)>>
    /\ pc' = "make"
    /\ UNCHANGED <<env, runs, faults, changes, dep, archive, sources, decision, result, stage,
                   start, prev, keyfiles, keyring, cache, dirs, buildinfo,
                   installed>>

\* configure exits with another status (run() returns Err).  It writes the
\* top-level Makefile first and objs/Makefile late: a failing configure may
\* have written neither, the first, or both.
ConfigureFail ==
    /\ pc = "configure"
    /\ UNCHANGED parsevars
    /\ \E wrote \in {"nothing", "Makefile", "both"} :
          /\ makefiles' = IF wrote = "nothing" THEN makefiles
                          ELSE makefiles \cup {NginxSrcDir}
          /\ objs' = IF wrote = "both"
                     THEN Put(objs, NginxSrcDir, build_info(CurrentFlags))
                     ELSE objs
    /\ log' = log \o <<Event("configure", build_info(CurrentFlags), FALSE)>>
    /\ Fail("configure")
    /\ faults < MaxFaults
    /\ faults' = faults + 1
    /\ UNCHANGED <<env, runs, changes, dep, archive, sources, decision, start, prev,
                   keyfiles, keyring, cache, dirs, buildinfo, installed>>

\* The fingerprint stored whatever make returned
StoresBuildInfoAlways(make_ok) == TRUE

\* Whether compile_nginx stores the fingerprint after a make that succeeded
\* (line 471-474: only then).
StoresBuildInfo(make_ok) == make_ok

\* make install, and line 472-474 when it succeeded.  make builds zlib, pcre2
\* and openssl from their source trees: it cannot succeed without them.
Make(make_ok) ==
    /\ pc = "make"
    /\ UNCHANGED parsevars
    /\ make_ok => \A k \in 1..Len(sources) : Exists(dirs, sources[k][2])
    /\ installed' = IF make_ok THEN installed \cup {InstallDir} ELSE installed
    /\ buildinfo' = IF StoresBuildInfo(make_ok)
                    THEN Put(buildinfo, NginxSrcDir, build_info(CurrentFlags))
                    ELSE buildinfo
    /\ log' = log \o <<Event("make", "install", make_ok)>>
                  \o (IF StoresBuildInfo(make_ok)
                      THEN <<Event("write", PathJoin(NginxSrcDir, "last-build-info"),
                                   TRUE)>>
                      ELSE <<>>)
    /\ IF make_ok
       THEN pc' = "bind" /\ UNCHANGED <<result, stage, faults>>
       ELSE Fail("make") /\ faults < MaxFaults /\ faults' = faults + 1
    /\ UNCHANGED <<env, runs, changes, dep, archive, sources, decision, start, prev,
                   keyfiles, keyring, cache, dirs, makefiles, objs>>

MakeOk == Make(TRUE)
MakeFail == Make(FALSE)

\* main line 102-106: the lines that tell cargo when to run the script again.
RerunIfLines ==
    [k \in 1..Len(ENV_VARS_TRIGGERING_RECOMPILE) |->
        Event("cargo:rerun-if-env-changed", ENV_VARS_TRIGGERING_RECOMPILE[k], TRUE)]
    \o <<Event("cargo:rerun-if-changed", "build.rs", TRUE),
         Event("cargo:rerun-if-changed", "wrapper.h", TRUE)>>

\* main line 100-109: the rerun-if lines and generate_binding, which reads
\* objs/Makefile of the nginx source tree.
Finish ==
    /\ pc = "bind"
    /\ UNCHANGED parsevars
    /\ IF Exists(objs, NginxSrcDir)
       THEN /\ log' = log \o RerunIfLines
                         \o <<Event("bindgen", objs[NginxSrcDir], TRUE)>>
            /\ pc' = "idle"
            /\ result' = "ok"
            /\ UNCHANGED stage
       ELSE /\ log' = log \o RerunIfLines
            /\ Fail("bindgen")
    /\ UNCHANGED <<env, runs, faults, changes, dep, archive, sources, decision, start, prev>>
    /\ UNCHANGED fsvars

-----------------------------------------------------------------------------
(* Include Path Extractor: parse_includes_from_makefile *)

\* The texts of the Makefile are sequences of characters.  An Option is a
\* record: some says whether there is a value.
None == [some |-> FALSE, val |-> <<>>]
Some(v) == [some |-> TRUE, val |-> v]

\* Whether pattern p occurs in s at position i; the first position it occurs
\* at, 0 when it does not occur.
OccursAt(s, p, i) == i + Len(p) - 1 <= Len(s) /\ SubSeq(s, i, i + Len(p) - 1) = p
Find(s, p) ==
    IF \E i \in 1..Len(s) : OccursAt(s, p, i)
    THEN Min({i \in 1..Len(s) : OccursAt(s, p, i)})
    ELSE 0

\* str::trim removes the white space at both ends.
WhiteSpace == {" ", "\t", "\r", "\n"}
trim(s) ==
    IF \A k \in 1..Len(s) : s[k] \in WhiteSpace
    THEN <<>>
    ELSE SubSeq(s, Min({k \in 1..Len(s) : s[k] \notin WhiteSpace}),
                   Max({k \in 1..Len(s) : s[k] \notin WhiteSpace}))

strip_prefix(s, p) ==
    IF OccursAt(s, p, 1) THEN Some(SubSeq(s, Len(p) + 1, Len(s))) ELSE None
strip_suffix(s, c) ==
    IF s # <<>> /\ s[Len(s)] = c THEN Some(SubSeq(s, 1, Len(s) - 1)) ELSE None

AllIncs == <<"A", "L", "L", "_", "I", "N", "C", "S">>
IFlag == <<"-", "I", " ">>

\* line 583-585: the text is trimmed only when it ends with the backslash.
extract_include_part(line) ==
    IF strip_suffix(line, "\\").some
    THEN trim(strip_suffix(line, "\\").val)
    ELSE line

\* The second piece of line.split("-I "): the text between the first and the
\* second occurrence of "-I " (or the end of the line).
SecondPart(line) ==
    LET rest == SubSeq(line, Find(line, IFlag) + Len(IFlag), Len(line))
    IN  IF Find(rest, IFlag) = 0 THEN rest
        ELSE SubSeq(rest, 1, Find(rest, IFlag) - 1)

\* line 587-593
extract_after_i_flag(line) ==
    IF Find(line, IFlag) = 0 THEN None
    ELSE Some(extract_include_part(SecondPart(line)))

RECURSIVE scan_never_stopping(_, _, _)
\* The loop without its break
scan_never_stopping(lines, includes_lines, acc) ==
    IF lines = <<>> THEN acc
    ELSE IF ~includes_lines /\ strip_prefix(Head(lines), AllIncs).some
    THEN LET part == extract_after_i_flag(strip_prefix(Head(lines), AllIncs).val)
         IN  scan_never_stopping(Tail(lines), TRUE,
                                 IF part.some THEN Append(acc, part.val) ELSE acc)
    ELSE IF includes_lines /\ extract_after_i_flag(Head(lines)).some
    THEN scan_never_stopping(Tail(lines), TRUE,
                             Append(acc, extract_after_i_flag(Head(lines)).val))
    ELSE scan_never_stopping(Tail(lines), includes_lines, acc)

RECURSIVE scan(_, _, _)
\* line 607-626: the loop over the lines; includes_lines says whether the
\* ALL_INCS line was met, acc is includes.
scan(lines, includes_lines, acc) ==
    IF lines = <<>> THEN acc
    ELSE IF ~includes_lines /\ strip_prefix(Head(lines), AllIncs).some
    THEN LET part == extract_after_i_flag(strip_prefix(Head(lines), AllIncs).val)
         IN  scan(Tail(lines), TRUE,
                  IF part.some THEN Append(acc, part.val) ELSE acc)
    ELSE IF includes_lines
    THEN IF extract_after_i_flag(Head(lines)).some
         THEN scan(Tail(lines), TRUE,
                   Append(acc, extract_after_i_flag(Head(lines)).val))
         ELSE acc
    ELSE scan(Tail(lines), FALSE, acc)

\* line 637-647: a relative path is joined to the directory two levels above
\* the Makefile.
is_absolute(path) == path # <<>> /\ Head(path) = "/"
resolve(makefile_dir, path) ==
    IF is_absolute(path) THEN path ELSE makefile_dir \o <<"/">> \o path

parse_includes_from_makefile(contents, makefile_dir) ==
    [k \in 1..Len(scan(contents, FALSE, <<>>)) |->
        resolve(makefile_dir, scan(contents, FALSE, <<>>)[k])]

\* The canonical directory of the nginx source tree the parsed
\* objs/Makefile lies in.
MakefileDir == <<"/", "n">>

\* generate_binding line 114-115 on a readable objs/Makefile.
ParseIncludes ==
    /\ includes = NotParsed
    /\ includes' = parse_includes_from_makefile(makefile_contents, MakefileDir)
    /\ UNCHANGED makefile_contents
    /\ UNCHANGED runvars
    /\ UNCHANGED fsvars

\* The lines of the Makefiles: pieces of text and the lines made of them.
TextEq == <<" ", "=", " ">>
TextCont == <<" ", "\\">>
PathAB == <<"/", "a", "/", "b">>
PathCD == <<"/", "c", "/", "d">>
PathE == <<"/", "e">>
PathRel == <<"s", "r", "c">>

\* ALL_INCS = -I /a/b \ 
LineAllIncs == AllIncs \o TextEq \o IFlag \o PathAB \o TextCont
\* ALL_INCS = \ 
LineAllIncsBare == AllIncs \o TextEq \o <<"\\">>
\* -I /c/d \ 
LineCont == IFlag \o PathCD \o TextCont
\* <tab>-I src \ 
LineRel == <<"\t">> \o IFlag \o PathRel \o TextCont
\* <tab>-I /e           (the last line of a block has no backslash)
LineLast == <<"\t">> \o IFlag \o PathE
\* -I /e<space>
LineLastSpace == IFlag \o PathE \o <<" ">>
\* -I /a/b -I /c/d \ 
LineTwo == IFlag \o PathAB \o <<" ">> \o IFlag \o PathCD \o TextCont
\* CFLAGS = -O
LineOther == <<"C", "F", "L", "A", "G", "S">> \o TextEq \o <<"-", "O">>
\* -I/e                  (no space after the flag)
LineNoSpace == <<"-", "I">> \o PathE
LineEmpty == <<>>

Lines ==
    {LineAllIncs, LineAllIncsBare, LineCont, LineRel, LineLast, LineLastSpace,
     LineTwo, LineOther, LineNoSpace, LineEmpty}

\* The Makefiles of at most MaxLines lines.
Makefiles == UNION {[1..n -> Lines] : n \in 0..MaxLines}

InitParse ==
    /\ FreshCheckout
    /\ makefile_contents \in Makefiles
    /\ includes = NotParsed

NextParse == ParseIncludes

SpecParse == InitParse /\ [][NextParse]_vars

-----------------------------------------------------------------------------
(* Environments and specifications *)

\* The values the runs give to the variables that configure the build.  The
\* host is linux, so an unset CARGO_CFG_TARGET_OS means linux.  The pcre2 and
\* openssl versions stay at their defaults: their source paths change with
\* CARGO_TARGET_TMPDIR, and alone as the zlib path does with ZLIB_VERSION.
DebugValues == {Unset, "true"}
TargetOsValues == {Unset, "macos", "freebsd"}
ZlibVersions == {UnsetV, <<"1", ".", "3", ".", "1">>}
Pcre2Versions == {UnsetV}
OpensslVersions == {UnsetV}
NgxVersions == {UnsetV, <<"1", ".", "25", ".", "3">>}
TmpDirs == {Unset, "/tmp/t"}

ConfigEnvs ==
    [gpg : {TRUE}, NGX_DEBUG : DebugValues, CARGO_CFG_TARGET_OS : TargetOsValues,
     ZLIB_VERSION : ZlibVersions, PCRE2_VERSION : Pcre2Versions,
     OPENSSL_VERSION : OpensslVersions, NGX_VERSION : NgxVersions,
     CARGO_TARGET_TMPDIR : TmpDirs]

EnvFields == DOMAIN DefaultEnv
Differ(e, f) == {x \in EnvFields : e[x] # f[x]}

\* A run with gpg installed; from one run to the next at most one variable
\* changes (before the first run: from the default environment).
StartRunConfig ==
    \E e \in ConfigEnvs :
        /\ Cardinality(Differ(e, env)) <= 1
        /\ StartRun(e)

\* A run of the default configuration, with or without gpg on the PATH.
StartRunTrust ==
    \E g \in BOOLEAN : StartRun([DefaultEnv EXCEPT !.gpg = g])

\* Runs in changing configurations; the servers answer with the published
\* files, configure and make may fail.
NextBuild ==
    \/ StartRunConfig
    \/ ImportKeysOk
    \/ GetArchiveGenuine
    \/ ExtractArchive
    \/ Plan
    \/ ConfigureOk
    \/ ConfigureFail
    \/ MakeOk
    \/ MakeFail
    \/ Finish

SpecBuild == Init /\ [][NextBuild]_vars

\* Runs of the default configuration with or without gpg; the key servers
\* and download servers answer anything, configure and make succeed.
NextTrust ==
    \/ StartRunTrust
    \/ ImportKeysOk
    \/ ImportKeysFail
    \/ ImportKeysSkipped
    \/ GetArchiveAny
    \/ ExtractArchive
    \/ Plan
    \/ ConfigureOk
    \/ MakeOk
    \/ Finish

SpecTrust == Init /\ [][NextTrust]_vars

\* Every run the model describes: any of the configurations, with or without
\* gpg, one variable changing from a run to the next.
StartRunAny ==
    \E e \in ConfigEnvs, g \in BOOLEAN :
        /\ Cardinality(Differ([e EXCEPT !.gpg = g], env)) <= 1
        /\ StartRun([e EXCEPT !.gpg = g])

Next ==
    \/ StartRunAny
    \/ ImportKeysOk
    \/ ImportKeysFail
    \/ ImportKeysSkipped
    \/ GetArchiveAny
    \/ ExtractArchive
    \/ Plan
    \/ ConfigureOk
    \/ ConfigureFail
    \/ MakeOk
    \/ MakeFail
    \/ Finish

Spec == Init /\ [][Next]_vars

-----------------------------------------------------------------------------
(* Properties *)

\* What an environment alone determines: the source directory of archive k
\* and the flags of the configuration.
EnvSrcDir(e, k) ==
    archive_output_dir(source_output_dir(e, Str(make_cache_dir)),
                       file_name(all_archives(e)[k][1]))
EnvFlags(e) ==
    nginx_configure_flags(e, nginx_install_dir(e, Str(make_cache_dir)),
                          EnvSrcDir(e, 1), EnvSrcDir(e, 3), EnvSrcDir(e, 2))
EnvBuildInfo(e) == build_info(EnvFlags(e))

\* The cached signature and archive of archive k in environment e.
SigPath(e, k) == Str(make_cache_dir \o <<"/">> \o file_name(all_archives(e)[k][2]))
ArcPath(e, k) == Str(make_cache_dir \o <<"/">> \o file_name(all_archives(e)[k][1]))

HasEvent(op, arg, ok) == \E k \in 1..Len(log) : log[k] = Event(op, arg, ok)
RunEnded == pc = "idle" /\ runs > 0
RunSucceeded == RunEnded /\ result = "ok"
\* There was a run before the current one.
SecondRun == prev.result # "none"

\* The one variable that differs between the previous run and this one.
OneChange == Cardinality(Differ(prev.env, env)) = 1
Changed(x) == Differ(prev.env, env) = {x}
\* A change that alters the flag list and keeps the nginx source directory.
FlagChange ==
    \/ Changed("NGX_DEBUG") /\ DebugOn(prev.env) # DebugOn(env)
    \/ Changed("CARGO_CFG_TARGET_OS") /\ TargetIsLinux(prev.env) # TargetIsLinux(env)
    \/ Changed("ZLIB_VERSION")
    \/ Changed("PCRE2_VERSION")
    \/ Changed("OPENSSL_VERSION")
\* A change that alters the flag list.
FingerprintChange ==
    FlagChange \/ Changed("NGX_VERSION") \/ Changed("CARGO_TARGET_TMPDIR")

BuiltOnceAndStored ==
    /\ Count(log, "configure") = 1
    /\ Count(log, "make") = 1
    /\ Exists(buildinfo, NginxSrcDir)
    /\ buildinfo[NginxSrcDir] = EnvBuildInfo(env)

C2_FailedBuildIsRetried ==
    (prev.stage \in {"configure", "make"} /\ env = prev.env) =>
        /\ decision # "skip"
        /\ (pc \in {"make", "bind"} \/ (RunEnded /\ decision = "rebuild"))
              => Count(log, "configure") = 1
        /\ pc = "bind" => Count(log, "make") = 1

\* C2 witness: make install failed in a tree that held the fingerprint of an
\* earlier build whose binary is installed, and the same environment
\* configures again.
C2_Witness ==
    /\ pc = "make"
    /\ prev.stage = "make"
    /\ env = prev.env
    /\ InstallDir \in start.installed
    /\ Exists(start.buildinfo, NginxSrcDir)
    /\ Count(log, "configure") = 1

\* Position of the first event of the log with the given op and outcome, 0
\* when there is none.
FirstEvent(op, ok) ==
    IF \E k \in 1..Len(log) : log[k].op = op /\ log[k].ok = ok
    THEN Min({k \in 1..Len(log) : log[k].op = op /\ log[k].ok = ok})
    ELSE 0

\* C3: last-build-info differs from what it was when the run started only
\* after configure and then make install succeeded in the run, and it is
\* written at most once; a run in which one of them failed leaves every
\* last-build-info as it was.
C3_BuildInfoOnlyAfterSuccess ==
    /\ (buildinfo # start.buildinfo \/ Count(log, "write") > 0) =>
            /\ Count(log, "write") = 1
            /\ 0 < FirstEvent("configure", TRUE)
            /\ FirstEvent("configure", TRUE) < FirstEvent("make", TRUE)
            /\ FirstEvent("make", TRUE) < FirstEvent("write", TRUE)
            /\ FirstEvent("configure", FALSE) = 0
            /\ FirstEvent("make", FALSE) = 0
    /\ (result = "failed" /\ stage \in {"configure", "make"})
            => buildinfo = start.buildinfo

\* C3 witness: make install failed in a tree that holds the fingerprint of
\* another configuration.
C3_Witness ==
    /\ RunEnded
    /\ stage = "make"
    /\ Exists(buildinfo, NginxSrcDir)
    /\ buildinfo[NginxSrcDir] # EnvBuildInfo(env)

NoRequests ==
    /\ Count(log, "GET") = 0
    /\ Count(log, "recv-keys") = 0
NoBuild ==
    /\ Count(log, "configure") = 0
    /\ Count(log, "make") = 0

\* C4, as stated: a run after a completed run, in the same environment, sends
\* no request to a key or download server and invokes neither configure nor
\* make.
C4_SecondRunIdle ==
    (prev.result = "ok" /\ env = prev.env) => (NoRequests /\ NoBuild)

\* No cached signature or archive of the configuration is of zero length.
NoEmptyDownload(c, e) ==
    \A k \in 1..NumArchives :
        /\ Exists(c, SigPath(e, k)) => c[SigPath(e, k)] # "empty"
        /\ Exists(c, ArcPath(e, k)) => c[ArcPath(e, k)] # "empty"

\* C4, amended: ... provided none of the files the first run left in the
\* cache is of zero length (download treats such a file as not fetched).
C4_SecondRunIdleUnlessEmptyFile ==
    (prev.result = "ok" /\ env = prev.env /\ NoEmptyDownload(start.cache, env))
        => (NoRequests /\ NoBuild)

\* C4 witness: a second run in the same environment got through download,
\* extraction and the build decision.
C4_Witness ==
    /\ prev.result = "ok"
    /\ env = prev.env
    /\ NoEmptyDownload(start.cache, env)
    /\ RunSucceeded
    /\ decision = "skip"

\* The three inputs of the decision as they were when the run started (the
\* run changes none of them before the decision).
BinaryAbsent == InstallDir \notin start.installed
BuildFileAbsent == NginxSrcDir \notin start.makefiles
FingerprintDiffers ==
    ~(Exists(start.buildinfo, NginxSrcDir)
      /\ start.buildinfo[NginxSrcDir] = EnvBuildInfo(env))

GetArchiveFailed(st) == RunEnded /\ result = "failed" /\ stage = st

\* C6, as stated: when the archive does not verify against a well-formed
\* signature, get_archive fails and neither the archive nor the signature is
\* in the cache afterwards.
C6_BothFilesRemoved ==
    GetArchiveFailed("verify") =>
        /\ ~Exists(cache, ArcPath(env, dep))
        /\ ~Exists(cache, SigPath(env, dep))

\* C6, amended: ... get_archive fails and afterwards the archive is absent
\* from the cache while the well-formed signature is still there, so the next
\* run fetches the archive again and not the signature.
C6_ArchiveRemovedSignatureKept ==
    /\ GetArchiveFailed("verify") =>
            /\ HasEvent("list-packets", SigPath(env, dep), TRUE)
            /\ ~Exists(cache, ArcPath(env, dep))
            /\ Exists(cache, SigPath(env, dep))
            /\ ListPacketsOk(cache[SigPath(env, dep)])
    /\ (prev.stage = "verify" /\ env = prev.env /\ dep = prev.dep
            /\ pc \in {"extract", "idle"}) =>
            /\ \E k \in 1..Len(log) :
                    log[k].op = "GET" /\ log[k].arg = ArcPath(env, dep)
            /\ \A k \in 1..Len(log) :
                    log[k].op = "GET" => log[k].arg # SigPath(env, dep)

\* C6 witness: the run after a failed verification has fetched the archive
\* again and got it verified.
C6_Witness ==
    /\ prev.stage = "verify"
    /\ env = prev.env
    /\ dep = prev.dep
    /\ pc = "extract"
    /\ HasEvent("verify", ArcPath(env, dep), TRUE)

\* C7: with gpg available, get_archive returns a path only when, in that
\* call, the signature file passed --list-packets and the archive passed
\* --verify (so the cached pair is the published one); a check that fails
\* ends the run with an error, and the file that failed it is removed.
C7_OnlyVerifiedArchivesReturned ==
    (runs > 0 /\ gpg_path(env)) =>
        /\ \A k \in 1..NumArchives :
              (k <= Len(sources) \/ (k = dep /\ pc = "extract")) =>
                  /\ HasEvent("list-packets", SigPath(env, k), TRUE)
                  /\ HasEvent("verify", ArcPath(env, k), TRUE)
                  /\ cache[SigPath(env, k)] = "valid"
                  /\ cache[ArcPath(env, k)] = "genuine"
        /\ (\E k \in 1..Len(log) : log[k].op = "list-packets" /\ ~log[k].ok)
              <=> GetArchiveFailed("signature")
        /\ (\E k \in 1..Len(log) : log[k].op = "verify" /\ ~log[k].ok)
              <=> GetArchiveFailed("verify")
        /\ GetArchiveFailed("signature") =>
              /\ HasEvent("list-packets", SigPath(env, dep), FALSE)
              /\ ~Exists(cache, SigPath(env, dep))
        /\ GetArchiveFailed("verify") =>
              /\ HasEvent("verify", ArcPath(env, dep), FALSE)
              /\ ~Exists(cache, ArcPath(env, dep))

\* C7 witness: with gpg available get_archive returned an archive that an
\* earlier run, without gpg, had left in the cache.
C7_Witness ==
    /\ gpg_path(env)
    /\ pc = "extract"
    /\ Exists(start.cache, ArcPath(env, dep))
    /\ ~gpg_path(prev.env)
    /\ prev.result # "none"

\* import_gpg_keys returned Ok in the current run, with gpg available.
ImportReturnedOk ==
    /\ runs > 0
    /\ gpg_path(env)
    /\ pc # "keys"
    /\ ~(result = "failed" /\ stage = "keys")

\* The key ids a record file stands for.
Covers(r) == {r.key_ids[k] : k \in 1..Len(r.key_ids)}

\* C8: once import_gpg_keys has returned without error, every key id has
\* been retrieved into the trust store exactly once, and a record file is
\* there only if every key id of its pair was retrieved.
C8_EveryKeyImportedOnce ==
    ImportReturnedOk =>
        /\ \A id \in KeyIds : keyring[id] = 1
        /\ \A n \in 1..Len(ALL_SERVERS_AND_PUBLIC_KEY_IDS) :
              key_id_record_file(ALL_SERVERS_AND_PUBLIC_KEY_IDS[n]) \in keyfiles
                  => \A id \in Covers(ALL_SERVERS_AND_PUBLIC_KEY_IDS[n]) :
                          keyring[id] >= 1

GpgNotFound(k) ==
    /\ log[k].op = "println"
    /\ log[k].arg \in {"GPG not found, skipping signature file verification",
                       "GPG not found, skipping signature verification"}
Warnings == Cardinality({k \in 1..Len(log) : GpgNotFound(k)})

\* C9: in a run without gpg no key is imported and no record file written,
\* no signature or archive is checked, no file is removed, and the run never
\* stops at the key import or at a check; every archive get_archive returned
\* was announced as unchecked, and a run that completes has downloaded and
\* extracted the four dependencies and has nginx installed.
C9_WithoutGpgNoCheckNoFailure ==
    (runs > 0 /\ ~gpg_path(env)) =>
        /\ keyring = start.keyring
        /\ keyfiles = start.keyfiles
        /\ \A k \in 1..Len(log) :
              log[k].op \notin {"recv-keys", "list-packets", "verify", "remove"}
        /\ DOMAIN start.cache \subseteq DOMAIN cache
        /\ result = "failed" => stage \notin {"keys", "signature", "verify"}
        /\ Warnings >= 2 * Len(sources)
        /\ pc = "extract" => Warnings = 2 * dep
        /\ RunSucceeded =>
              /\ Len(sources) = NumArchives
              /\ \A k \in 1..NumArchives :
                    /\ Exists(cache, SigPath(env, k))
                    /\ Exists(cache, ArcPath(env, k))
                    /\ Exists(dirs, sources[k][2])
              /\ InstallDir \in installed

\* C9 witness: a first run without gpg completed: it fetched the eight
\* files, unpacked the four archives and built nginx.
C9_Witness ==
    /\ ~gpg_path(env)
    /\ RunSucceeded
    /\ Count(log, "GET") = 2 * NumArchives
    /\ Count(log, "unpack") = NumArchives
    /\ Count(log, "configure") = 1
    /\ Count(log, "make") = 1
    /\ Warnings = 2 * NumArchives

\* The directory extract_archive is about to look for.
ExtractTarget ==
    archive_output_dir(source_output_dir(env, Str(make_cache_dir)),
                       file_name(archive))

\* C10: a call of extract_archive that finds its target directory unpacks
\* nothing, changes nothing in the file system, and returns the pair the call
\* that unpacked the directory returned.
C10_ExtractionIdempotent ==
    [][(pc = "extract" /\ Exists(dirs, ExtractTarget)) =>
            /\ fsvars' = fsvars
            /\ Count(log', "unpack") = Count(log, "unpack")
            /\ sources' = Append(sources, dirs[ExtractTarget].pair)]_vars

\* C10 witness: extract_archive returned a directory an earlier run made.
C10_Witness ==
    \E k \in 1..Len(sources) : Exists(start.dirs, sources[k][2])

-----------------------------------------------------------------------------
(* Properties of the Include Path Extractor *)

Parsed == includes # NotParsed
HasIFlag(line) == Find(line, IFlag) # 0
\* The first line that starts with ALL_INCS (0: there is none), and the last
\* line of the block it opens: every line after the first one, up to this
\* line, carries an -I flag.
BlockFirst(m) ==
    IF \E k \in 1..Len(m) : OccursAt(m[k], AllIncs, 1)
    THEN Min({k \in 1..Len(m) : OccursAt(m[k], AllIncs, 1)})
    ELSE 0
BlockLast(m) ==
    Max({j \in BlockFirst(m)..Len(m) :
            \A k \in (BlockFirst(m) + 1)..j : HasIFlag(m[k])})
\* The lines of the block that carry an -I flag, in the order of the file.
BlockLines(m) ==
    IF BlockFirst(m) = 0 THEN <<>>
    ELSE SelectSeq(SubSeq(m, BlockFirst(m), BlockLast(m)), HasIFlag)

\* The path of a line: the text after its first -I flag, up to its next -I
\* flag; when that text ends with the continuation backslash, without the
\* backslash and the white space around the rest.
PathOfLine(line) ==
    LET text == SecondPart(line)
    IN  IF text # <<>> /\ text[Len(text)] = "\\"
        THEN trim(SubSeq(text, 1, Len(text) - 1))
        ELSE text
Resolved(path) == IF Head(path) = "/" THEN path ELSE MakefileDir \o <<"/">> \o path

RECURSIVE PathsOfLine(_)
\* The paths after every -I flag of a line, in order.
PathsOfLine(line) ==
    IF ~HasIFlag(line) THEN <<>>
    ELSE <<PathOfLine(line)>>
         \o PathsOfLine(SubSeq(line, Find(line, IFlag) + Len(IFlag), Len(line)))

RECURSIVE Concat(_)
Concat(seqs) == IF seqs = <<>> THEN <<>> ELSE Head(seqs) \o Concat(Tail(seqs))

ExampleMakefile == <<LineAllIncs, LineCont, LineOther>>

C19_EveryFlagContributes ==
    Parsed =>
       includes =
          LET all == Concat([k \in 1..Len(BlockLines(makefile_contents)) |->
                               PathsOfLine(BlockLines(makefile_contents)[k])])
          IN  [k \in 1..Len(all) |-> Resolved(all[k])]

-----------------------------------------------------------------------------
(* Properties of the error paths *)

\* The events the step appends to the log.
NewEvents == SubSeq(log', Len(log) + 1, Len(log'))
Appended(op, arg, ok) ==
    \E k \in 1..Len(NewEvents) : NewEvents[k] = Event(op, arg, ok)

\* C12: a call of get_archive in which gpg --verify rejects the archive
\* removes the archive file and nothing else (the signature file, which
\* passed --list-packets in the same call, stays in the cache with the
\* content that was checked) and returns the error, which ends the run.
C12_VerifyFailureRemovesArchiveOnly ==
    [][(pc = "fetch" /\ \E k \in 1..Len(NewEvents) :
                            NewEvents[k].op = "verify" /\ ~NewEvents[k].ok) =>
          /\ Appended("list-packets", SigPath(env, dep), TRUE)
          /\ Appended("verify", ArcPath(env, dep), FALSE)
          /\ DOMAIN cache' = (DOMAIN cache \cup {SigPath(env, dep)})
                                \ {ArcPath(env, dep)}
          /\ ListPacketsOk(cache'[SigPath(env, dep)])
          /\ Exists(cache, SigPath(env, dep)) /\ cache[SigPath(env, dep)] # "empty"
                => cache'[SigPath(env, dep)] = cache[SigPath(env, dep)]
          /\ \A q \in DOMAIN cache' \ {SigPath(env, dep)} : cache'[q] = cache[q]
          /\ pc' = "idle"
          /\ result' = "failed"
          /\ stage' = "verify"
          /\ <<dirs', sources', installed'>> = <<dirs, sources, installed>>]_vars

\* C12 witness: get_archive failed on an archive that an earlier run had left
\* in the cache; the archive is gone and the signature is still there.
C12_Witness ==
    /\ GetArchiveFailed("verify")
    /\ Exists(start.cache, ArcPath(env, dep))
    /\ Exists(start.cache, SigPath(env, dep))
    /\ ~Exists(cache, ArcPath(env, dep))
    /\ Exists(cache, SigPath(env, dep))

\* The current run has been through get_archive for the dependency the run
\* before stopped at.
BackAtDependency ==
    /\ pc # "keys"
    /\ dep > prev.dep \/ (dep = prev.dep /\ pc # "fetch")

\* C13: a call of get_archive in which the signature file fails gpg
\* --list-packets removes the signature file, requests no archive, leaves
\* every other cached file as it was and returns the error, which ends the
\* run; the next run, when it comes to that dependency, requests the
\* signature again.
C13_MalformedSignatureRemoved ==
    /\ [][(pc = "fetch" /\ \E k \in 1..Len(NewEvents) :
                            NewEvents[k].op = "list-packets" /\ ~NewEvents[k].ok) =>
            /\ ~Exists(cache', SigPath(env, dep))
            /\ Appended("remove", SigPath(env, dep), TRUE)
            /\ \A k \in 1..Len(NewEvents) :
                  NewEvents[k].op = "GET" => NewEvents[k].arg = SigPath(env, dep)
            /\ DOMAIN cache' = DOMAIN cache \ {SigPath(env, dep)}
            /\ \A q \in DOMAIN cache' : cache'[q] = cache[q]
            /\ pc' = "idle"
            /\ result' = "failed"
            /\ stage' = "signature"]_vars
    /\ [](prev.stage = "signature" /\ BackAtDependency =>
            \E k \in 1..Len(log) :
                log[k].op = "GET" /\ log[k].arg = SigPath(env, prev.dep))

\* C13 witness: the run after one that stopped at a malformed signature has
\* fetched the signature again and found it well-formed.
C13_Witness ==
    /\ prev.stage = "signature"
    /\ dep = prev.dep
    /\ pc = "extract"
    /\ HasEvent("GET", SigPath(env, dep), TRUE)
    /\ HasEvent("list-packets", SigPath(env, dep), TRUE)

-----------------------------------------------------------------------------
(* Properties of download *)

\* The file is missing or has zero length.
Absent(c, path) == ~Exists(c, path) \/ c[path] = "empty"
Requested(path) ==
    \E k \in 1..Len(NewEvents) : NewEvents[k].op = "GET" /\ NewEvents[k].arg = path
\* get_archive came to its second download: the first one returned the path
\* and verify_signature_file returned Ok.
ArchiveDownloadCalled ==
    \/ Appended("list-packets", SigPath(env, dep), TRUE)
    \/ Appended("println", "GPG not found, skipping signature file verification",
                TRUE)

\* C14: download requests the URL if and only if the file named by the last
\* segment of the URL is missing from the cache directory or has zero length.
\* When the file is there and not empty no request is made and download
\* leaves it as it is.  Whether it requested the file or not, a download that
\* does not fail returns the path of that file, which then exists.
C14_DownloadIffAbsent ==
    [][pc = "fetch" =>
          /\ Requested(SigPath(env, dep)) <=> Absent(cache, SigPath(env, dep))
          /\ ArchiveDownloadCalled =>
                (Requested(ArcPath(env, dep)) <=> Absent(cache, ArcPath(env, dep)))
          /\ ~ArchiveDownloadCalled => ~Requested(ArcPath(env, dep))
          /\ \A k \in 1..Len(NewEvents) :
                NewEvents[k].op = "GET" =>
                    NewEvents[k].arg \in {SigPath(env, dep), ArcPath(env, dep)}
          /\ \A q \in {SigPath(env, dep), ArcPath(env, dep)} :
                (~Absent(cache, q) /\ ~Appended("remove", q, TRUE)) =>
                    Exists(cache', q) /\ cache'[q] = cache[q]
          /\ \A q \in DOMAIN cache \ {SigPath(env, dep), ArcPath(env, dep)} :
                Exists(cache', q) /\ cache'[q] = cache[q]
          /\ pc' = "extract" =>
                /\ Str(archive') = ArcPath(env, dep)
                /\ Str(file_name(archive')) = Str(file_name(all_archives(env)[dep][1]))
                /\ Exists(cache', Str(archive'))
                /\ Exists(cache', SigPath(env, dep))]_vars

\* C14 witness: a run that completed asked again for a signature the run
\* before had left with zero length, and asked for no archive, all of them
\* being in the cache.
C14_Witness ==
    /\ RunSucceeded
    /\ prev.result = "ok"
    /\ \E k \in 1..NumArchives :
          /\ Exists(start.cache, SigPath(env, k))
          /\ start.cache[SigPath(env, k)] = "empty"
          /\ HasEvent("GET", SigPath(env, k), TRUE)
    /\ \A k \in 1..NumArchives :
          /\ Exists(start.cache, ArcPath(env, k))
          /\ start.cache[ArcPath(env, k)] # "empty"
          /\ cache[ArcPath(env, k)] = start.cache[ArcPath(env, k)]
          /\ \A j \in 1..Len(log) :
                log[j].op = "GET" => log[j].arg # ArcPath(env, k)

\* The run stopped in import_gpg_keys.
ImportFailed == result = "failed" /\ stage = "keys"

\* C15: with gpg available, when the retrieval of a key fails,
\* import_gpg_keys returns an error that carries what gpg printed, and the
\* run ends before any download, extraction, configure or build step.
C15_ImportErrorCarriesDiagnostics ==
    ImportFailed =>
        /\ gpg_path(env)
        /\ \E k \in 1..Len(log), t \in {[server |-> r.server, key_id |-> id] :
                  r \in {ALL_SERVERS_AND_PUBLIC_KEY_IDS[n] :
                            n \in 1..Len(ALL_SERVERS_AND_PUBLIC_KEY_IDS)},
                  id \in KeyIds} :
              /\ log[k].op = "Err"
              /\ log[k].arg = "Failed to import GPG key " \o t.key_id
                                \o " from server " \o t.server \o ": "
                                \o GpgDiagnostics
        /\ \A k \in 1..Len(log) :
              log[k].op \notin {"GET", "unpack", "configure", "make", "bindgen"}

-----------------------------------------------------------------------------
(* Properties of the extraction of the entries *)

\* extract_archive returned Ok in the step: its pair was pushed and the loop
\* went on.
ExtractReturnedOk ==
    /\ sources' = Append(sources, <<dependency_name(archive_stem(file_name(archive))),
                                    ExtractTarget>>)
    /\ pc' \in {"fetch", "plan"}
    /\ result' = "running"

-----------------------------------------------------------------------------
(* Properties of the order of the steps *)

DependencyOrder == <<"zlib", "pcre2", "openssl", "nginx">>

\* The files and the directory of the dependencies: for each one the
\* signature path, the archive path and the source directory.
DepPaths ==
    <<>> \o [k \in 1..NumArchives |->
                <<SigPath(env, k), ArcPath(env, k), EnvSrcDir(env, k)>>]

\* The place of an event among the steps of the dependency with the paths p
\* (0: not one of them).
StepOf(ev, p) ==
    IF ev.op = "GET" /\ ev.arg = p[1] THEN 1
    ELSE IF ev.op = "list-packets" /\ ev.arg = p[1] THEN 2
    ELSE IF ev.op = "remove" /\ ev.arg = p[1] THEN 3
    ELSE IF ev.op = "GET" /\ ev.arg = p[2] THEN 4
    ELSE IF ev.op = "verify" /\ ev.arg = p[2] THEN 5
    ELSE IF ev.op = "remove" /\ ev.arg = p[2] THEN 6
    ELSE IF ev.op = "unpack" /\ ev.arg = p[3] THEN 7
    ELSE IF ev.op = "println" /\ ev.arg = "already extracted " \o p[3] THEN 7
    ELSE IF ev.op \in {"entry skipped", "entry.unpack"} /\ ev.arg = p[3] THEN 8
    ELSE 0

\* The place of an event in the run (0: an event without a place).
Rank(ev, paths) ==
    IF ev.op = "configure" THEN 100
    ELSE IF ev.op = "make" THEN 101
    ELSE IF ev.op = "write" THEN 102
    ELSE IF ev.op = "bindgen" THEN 103
    ELSE IF \E k \in 1..NumArchives : StepOf(ev, paths[k]) > 0
    THEN LET k == CHOOSE k \in 1..NumArchives : StepOf(ev, paths[k]) > 0
         IN  10 * k + StepOf(ev, paths[k])
    ELSE 0

\* C17: the steps of a run happen in one fixed order.  The dependencies are
\* taken in the order zlib, pcre2, openssl, nginx; no step of a dependency
\* happens before the one before it was extracted; for one dependency the
\* signature is fetched, then checked, then the archive is fetched, then
\* verified, then extracted; configure is invoked only after the four are
\* extracted, and make install only after configure succeeded.
C17_StepsInOrder ==
    LET paths == DepPaths
        ranks == <<>> \o [i \in 1..Len(log) |-> Rank(log[i], paths)]
        Before(i, r) == \E j \in 1..(i - 1) : ranks[j] = r
        BeforeOk(i, r) == \E j \in 1..(i - 1) : ranks[j] = r /\ log[j].ok
        DepAt(i) == ranks[i] \div 10
        StepAt(i) == ranks[i] % 10
    IN  /\ \A k \in 1..Len(sources) : sources[k][1] = DependencyOrder[k]
        /\ \A i, j \in 1..Len(log) :
              (i < j /\ ranks[i] > 0 /\ ranks[j] > 0) => ranks[i] < ranks[j]
        /\ \A i \in 1..Len(log) :
              (ranks[i] > 0 /\ ranks[i] < 100) =>
                  /\ \A m \in 1..(DepAt(i) - 1) :
                        /\ Before(i, 10 * m + 7)
                        /\ gpg_path(env) =>
                              BeforeOk(i, 10 * m + 2) /\ BeforeOk(i, 10 * m + 5)
                  /\ (StepAt(i) >= 4 /\ gpg_path(env)) =>
                        BeforeOk(i, 10 * DepAt(i) + 2)
                  /\ (StepAt(i) >= 7 /\ gpg_path(env)) =>
                        BeforeOk(i, 10 * DepAt(i) + 5)
                  /\ StepAt(i) = 7 =>
                        /\ Exists(cache, SigPath(env, DepAt(i)))
                        /\ Exists(cache, ArcPath(env, DepAt(i)))
        /\ \A i \in 1..Len(log) :
              /\ ranks[i] = 100 =>
                    /\ Len(sources) = NumArchives
                    /\ \A m \in 1..NumArchives : Before(i, 10 * m + 7)
              /\ ranks[i] = 101 => BeforeOk(i, 100)
        /\ pc \in {"plan", "configure", "make", "bind"} => Len(sources) = NumArchives

\* C17 witness: a run went through every step: the eight files fetched, the
\* four archives checked and unpacked, configure, make install.
C17_Witness ==
    /\ RunSucceeded
    /\ gpg_path(env)
    /\ Count(log, "GET") = 2 * NumArchives
    /\ Count(log, "list-packets") = NumArchives
    /\ Count(log, "verify") = NumArchives
    /\ Count(log, "unpack") = NumArchives
    /\ Count(log, "configure") = 1
    /\ Count(log, "make") = 1
    /\ Rank(log[Len(log)], DepPaths) = 103

-----------------------------------------------------------------------------
(* Properties of the configure flags *)

\* What the flags are computed from.
FlagInputs(e) ==
    <<nginx_install_dir(e, Str(make_cache_dir)), EnvSrcDir(e, 1), EnvSrcDir(e, 2),
      EnvSrcDir(e, 3), DebugOn(e), TargetIsLinux(e)>>

\* C18: the flags configure is invoked with are a function of the install
\* directory, the dependency paths, the debug toggle and whether the
\* effective target OS is linux, in this order: --prefix; --with-debug only
\* with the debug toggle on; the three Linux flags only for linux;
\* --with-zlib, --with-pcre, --with-openssl, each with the directory of its
\* own dependency; the 20 module flags, --with-http_slice_module twice.
C18_FlagOrder ==
    pc \in {"configure", "make"} =>
        LET flags == CurrentFlags
            d == IF env.NGX_DEBUG = "true" THEN 1 ELSE 0
            l == IF TargetIsLinux(env) THEN 3 ELSE 0
            n == 1 + d + l
        IN  /\ Len(flags) = n + 3 + 20
            /\ flags[1] = "--prefix=" \o InstallDir
            /\ d = 1 => flags[2] = "--with-debug"
            /\ d = 0 => \A k \in 1..Len(flags) : flags[k] # "--with-debug"
            /\ l = 3 => /\ flags[2 + d] = "--with-file-aio"
                        /\ SubSeq(flags, 2 + d, 4 + d) = NGX_LINUX_ADDITIONAL_OPTS
            /\ l = 0 => \A k \in 1..Len(flags) :
                            \A j \in 1..3 : flags[k] # NGX_LINUX_ADDITIONAL_OPTS[j]
            /\ flags[n + 1] = "--with-zlib=" \o find_dependency_path(sources, "zlib")
            /\ flags[n + 2] = "--with-pcre=" \o find_dependency_path(sources, "pcre2")
            /\ flags[n + 3] = "--with-openssl="
                                \o find_dependency_path(sources, "openssl")
            /\ find_dependency_path(sources, "zlib") = EnvSrcDir(env, 1)
            /\ find_dependency_path(sources, "pcre2") = EnvSrcDir(env, 2)
            /\ find_dependency_path(sources, "openssl") = EnvSrcDir(env, 3)
            /\ SubSeq(flags, n + 4, n + 23) = NGX_BASE_MODULES
            /\ flags[n + 4] = "--with-compat"
            /\ flags[n + 13] = "--with-http_slice_module"
            /\ flags[n + 14] = "--with-http_slice_module"
            /\ flags[n + 23] = "--with-threads"
            /\ \A e \in ConfigEnvs :
                  FlagInputs(e) = FlagInputs(env) => EnvFlags(e) = flags

\* C18 witness: configure ran with the debug flag and without the Linux
\* flags.
C18_Witness ==
    /\ pc = "make"
    /\ env.NGX_DEBUG = "true"
    /\ env.CARGO_CFG_TARGET_OS = "macos"
    /\ Len(CurrentFlags) = 25
    /\ HasEvent("configure", build_info(CurrentFlags), TRUE)

\* C20: whenever compile_nginx skips the rebuild, objs/Makefile of the nginx
\* source tree was written by a configure invoked with the flags of the
\* current configuration, so the include paths given to the binding
\* generator are those of the current configuration.
C20_SkipMeansCurrentBuildFiles ==
    (decision = "skip" /\ pc \in {"bind", "idle"}) =>
        /\ Exists(objs, NginxSrcDir)
        /\ objs[NginxSrcDir] = build_info(CurrentFlags)
        /\ \A k \in 1..Len(log) :
              log[k].op = "bindgen" => log[k].arg = build_info(CurrentFlags)

-----------------------------------------------------------------------------
(* Properties of the source trees that are reused *)

\* The tree of archive k was unpacked from an archive that gpg --verify
\* accepts with the signature of the run: either it was verified in the run
\* that unpacked it, or it has the bytes of an archive that passes now.
UnpackedFromVerified(k) ==
    LET tree == dirs[sources[k][2]]
    IN  /\ tree.from \in ArcBodies
        /\ Exists(cache, SigPath(env, k))
        /\ GpgVerifyOk(cache[SigPath(env, k)], tree.from)

\* C21: in a run in which gpg is available, each source tree handed to
\* configure was unpacked from an archive that passes gpg --verify, also
\* when the tree was left by an earlier run (one without gpg, or one in which
\* verification failed) and is reused without being unpacked again.
C21_ConfiguredTreesVerified ==
    (pc = "configure" /\ gpg_path(env)) =>
        \A k \in 1..Len(sources) :
            Exists(dirs, sources[k][2]) => UnpackedFromVerified(k)

\* C22: a directory extract_archive treats as already extracted holds every
\* entry of its archive: a directory left by an extraction that stopped at an
\* entry, or lost one, is not reused as a complete source tree.
C22_ReusedDirectoryComplete ==
    \A k \in 1..Len(sources) :
        HasEvent("println", "already extracted " \o sources[k][2], TRUE)
            => dirs[sources[k][2]].complete

-----------------------------------------------------------------------------
(* Properties of the lines printed for cargo *)

\* What the pipeline computes from the environment: the archives it fetches
\* and the flags, which hold the install prefix and the source directories.
ConfigurationOf(e) == <<all_archives(e), EnvFlags(e)>>

\* cargo runs the script again for environment e: a variable the last run
\* named in a cargo:rerun-if-env-changed line has another value in e.
CargoReruns(e) ==
    \E x \in Differ(e, env) : HasEvent("cargo:rerun-if-env-changed", x, TRUE)

\* C23: every environment variable whose value changes the configuration the
\* pipeline computes (dependency versions, debug toggle, target OS, source
\* output directory) is named in a cargo:rerun-if-env-changed line of a
\* completed run, so that cargo runs the script again when it changes.
C23_InfluencingVariablesListed ==
    RunSucceeded =>
        \A e \in ConfigEnvs :
            (Cardinality(Differ(e, env)) = 1
             /\ ConfigurationOf(e) # ConfigurationOf(env)) => CargoReruns(e)

====
